---- MODULE Spec2Model ----
(***************************************************************************)
(* State-machine model of the AD9739A DAC frontend driver                  *)
(* (drivers/iio/dac/ad9739a.c) and of the AXI DAC IP core backend          *)
(* (drivers/iio/dac/adi-axi-dac.c), joined by the IIO backend capability   *)
(* interface (include/linux/iio/backend.h).                                *)
(*                                                                         *)
(* Every handler is one atomic action.  What a handler does on its buses   *)
(* is kept, in program order, in the record `last` (the register-map       *)
(* calls, the delays and the capability calls of the handler that ran      *)
(* last), so that orderings inside one handler are state predicates.       *)
(***************************************************************************)
EXTENDS Integers, Sequences, FiniteSets, TLC

VARIABLES
    axi_regs,    \* register block of the AXI DAC core (memory mapped)
    registered,  \* the backend instance is in the backend registry
    iio,         \* the streaming device: DMA buffers, attachment, modes
    spi_regs,    \* register file of the AD9739A chip (SPI)
    fe,          \* the frontend: probe state, cached sample rate, handle
    streaming,   \* a stream is running (between preenable and postdisable)
    other_back,  \* another frontend device holds a handle to the backend
    last         \* what the handler that ran last did

vars == <<axi_regs, registered, iio, spi_regs, fe, streaming, other_back, last>>

----------------------------------------------------------------------------
(* errno values returned (negated) by the handlers *)
ENOENT == 2
EIO == 5
ENOMEM == 12
EBUSY == 16
ENODEV == 19
EINVAL == 22
ETIMEDOUT == 110

(* bounds of the model *)
MaxBuffers == 2

----------------------------------------------------------------------------
(* bit arithmetic on naturals *)
RECURSIVE And(_, _)
And(a, b) ==
    IF a = 0 \/ b = 0 THEN 0
    ELSE (a % 2) * (b % 2) + 2 * And(a \div 2, b \div 2)

AndNot(a, m) == a - And(a, m)
Or(a, b) == a + b - And(a, b)
BIT(n) == 2 ^ n
GENMASK(h, l) == (2 ^ (h + 1)) - (2 ^ l)

----------------------------------------------------------------------------
(* AXI DAC core: register definitions *)
ADI_AXI_REG_VERSION == \h0000
AXI_REG_RSTN == \h0040
AXI_REG_RSTN_CE_N == BIT(2)
AXI_REG_RSTN_MMCM_RSTN == BIT(1)
AXI_REG_RSTN_RSTN == BIT(0)
AXI_DAC_DATA_SEL_MASK == GENMASK(3, 0)
AXI_DAC_DATA_INTERNAL_TONE == 0
AXI_DAC_DATA_DMA == 2

(* enum iio_backend_data_source *)
IIO_BACKEND_INTERNAL_CW == 0
IIO_BACKEND_EXTERNAL == 1
IIO_BACKEND_DATA_SOURCE_MAX == 2

(* axi_dac_regmap_config *)
axi_reg_stride == 4
axi_max_register == \h0800

(* An address the 32-bit register bus can form but the model never stores: *)
(* every address above max_register is refused alike by the register map.  *)
AXI_REG_BEYOND == axi_max_register + axi_reg_stride

(* AXI_REG_CHAN_CNTRL_7(c) = 0x0418 + c * 0x40 in unsigned 32-bit          *)
(* arithmetic.  The sum is formed in 4-byte words modulo 2^30 (the same    *)
(* number modulo 2^32 in bytes), which keeps every intermediate value      *)
(* inside the checker's integers.                                          *)
AXI_REG_CHAN_CNTRL_7(c) ==
    LET w == ((\h0418 \div 4) + (c % (2 ^ 26)) * (\h40 \div 4)) % (2 ^ 30)
    IN  IF w <= axi_max_register /\ 4 * w <= axi_max_register
        THEN 4 * w ELSE AXI_REG_BEYOND

(* ADI_AXI_PCORE_VER* of linux/fpga/adi-axi-common.h *)
ADI_AXI_PCORE_VER(major, minor, patch) == major * (2 ^ 16) + minor * (2 ^ 8) + patch
ADI_AXI_PCORE_VER_MAJOR(version) == version \div (2 ^ 16)
ADI_AXI_PCORE_VER_MINOR(version) == (version \div (2 ^ 8)) % (2 ^ 8)
ADI_AXI_PCORE_VER_PATCH(version) == version % (2 ^ 8)

(* 'b' *)
CHAR_b == 98
axi_dac_9_1_b_info == ADI_AXI_PCORE_VER(9, 1, CHAR_b)

----------------------------------------------------------------------------
(* The register-map layer.  A call either reaches the register (bus_ok and *)
(* the address is accessible under the map's configuration) or returns an  *)
(* error and leaves the register file alone.  Each call leaves one event:  *)
(* ok says the call succeeded, wr that it wrote the register on the bus.   *)
Ev(t, reg, val, ok) ==
    [t |-> t, reg |-> reg, val |-> val, ok |-> ok, wr |-> (ok /\ t = "write")]

EvUpdate(reg, val, ok, wr) ==
    [t |-> "update", reg |-> reg, val |-> val, ok |-> ok, wr |-> wr]

Res(regs, ret, trace) == [regs |-> regs, ret |-> ret, trace |-> trace]

regmap_write(regs, reg, val, accessible, bus_ok) ==
    IF accessible /\ bus_ok
    THEN Res([regs EXCEPT ![reg] = val], 0, <<Ev("write", reg, val, TRUE)>>)
    ELSE Res(regs, -EIO, <<Ev("write", reg, val, FALSE)>>)

(* read-modify-write: tmp = (orig & ~mask) | (val & mask), written back   *)
(* only when it differs from what was read                                 *)
regmap_update_bits(regs, reg, mask, val, accessible, bus_ok) ==
    IF accessible /\ bus_ok
    THEN LET tmp == Or(AndNot(regs[reg], mask), And(val, mask))
         IN  Res([regs EXCEPT ![reg] = tmp], 0,
                 <<EvUpdate(reg, tmp, TRUE, tmp # regs[reg])>>)
    ELSE Res(regs, -EIO, <<EvUpdate(reg, And(val, mask), FALSE, FALSE)>>)

regmap_set_bits(regs, reg, bits, accessible, bus_ok) ==
    regmap_update_bits(regs, reg, bits, bits, accessible, bus_ok)

regmap_clear_bits(regs, reg, bits, accessible, bus_ok) ==
    regmap_update_bits(regs, reg, bits, 0, accessible, bus_ok)

(* the value read is regs[reg] when ret = 0 *)
regmap_read(regs, reg, accessible, bus_ok) ==
    IF accessible /\ bus_ok
    THEN Res(regs, 0, <<Ev("read", reg, regs[reg], TRUE)>>)
    ELSE Res(regs, -EIO, <<Ev("read", reg, 0, FALSE)>>)

Delay(t, n) == Ev(t, 0, n, TRUE)

(* an event that wrote a register *)
IsWrite(e) == e.wr

axi_accessible(reg) == reg % axi_reg_stride = 0 /\ reg <= axi_max_register

----------------------------------------------------------------------------
(* AXI DAC core: the capability operations.  `fail` is the number of the   *)
(* register-map call of this handler at which the bus fails (0: none).     *)

(* variant: both bits asserted by a single call, no settle delay *)
axi_dac_enable_one_write(regs, fail) ==
    regmap_set_bits(regs, AXI_REG_RSTN,
                    Or(AXI_REG_RSTN_RSTN, AXI_REG_RSTN_MMCM_RSTN),
                    axi_accessible(AXI_REG_RSTN), fail # 1)

(* variant: the first step stores the bit with a plain write *)
axi_dac_enable_plain_write(regs, fail) ==
    LET a == regmap_write(regs, AXI_REG_RSTN, AXI_REG_RSTN_MMCM_RSTN,
                          axi_accessible(AXI_REG_RSTN), fail # 1)
    IN  IF a.ret # 0 THEN a
        ELSE LET b == regmap_set_bits(a.regs, AXI_REG_RSTN,
                                      Or(AXI_REG_RSTN_RSTN, AXI_REG_RSTN_MMCM_RSTN),
                                      axi_accessible(AXI_REG_RSTN), fail # 2)
             IN  Res(b.regs, b.ret, a.trace \o <<Delay("fsleep", 10)>> \o b.trace)

axi_dac_enable(regs, fail) ==
    LET a == regmap_set_bits(regs, AXI_REG_RSTN, AXI_REG_RSTN_MMCM_RSTN,
                             axi_accessible(AXI_REG_RSTN), fail # 1)
    IN  IF a.ret # 0 THEN a
        ELSE LET b == regmap_set_bits(a.regs, AXI_REG_RSTN,
                                      Or(AXI_REG_RSTN_RSTN, AXI_REG_RSTN_MMCM_RSTN),
                                      axi_accessible(AXI_REG_RSTN), fail # 2)
             IN  Res(b.regs, b.ret, a.trace \o <<Delay("fsleep", 10)>> \o b.trace)

(* void: the result of regmap_write is dropped; ret is 0 by convention *)
axi_dac_disable(regs, fail) ==
    LET w == regmap_write(regs, AXI_REG_RSTN, 0,
                          axi_accessible(AXI_REG_RSTN), fail # 1)
    IN  Res(w.regs, 0, w.trace)

axi_dac_data_source_set(regs, chan, data, fail) ==
    CASE data = IIO_BACKEND_INTERNAL_CW ->
            regmap_update_bits(regs, AXI_REG_CHAN_CNTRL_7(chan),
                               AXI_DAC_DATA_SEL_MASK, AXI_DAC_DATA_INTERNAL_TONE,
                               axi_accessible(AXI_REG_CHAN_CNTRL_7(chan)), fail # 1)
      [] data = IIO_BACKEND_EXTERNAL ->
            regmap_update_bits(regs, AXI_REG_CHAN_CNTRL_7(chan),
                               AXI_DAC_DATA_SEL_MASK, AXI_DAC_DATA_DMA,
                               axi_accessible(AXI_REG_CHAN_CNTRL_7(chan)), fail # 1)
      [] OTHER -> Res(regs, -EINVAL, <<>>)

(* Backend probe.  `setup` names the resource step that fails before the   *)
(* register map exists ("ok": none); `reg_ret` is what                      *)
(* devm_iio_backend_register() returns.  The result says whether the        *)
(* instance was registered.                                                 *)
SetupErr(setup) ==
    CASE setup = "kzalloc" -> -ENOMEM
      [] setup = "match" -> -ENODEV
      [] setup = "clk" -> -ENOENT
      [] setup = "ioremap" -> -EBUSY
      [] setup = "regmap" -> -ENOMEM
      [] OTHER -> 0

PRes(regs, ret, trace, reg) ==
    [regs |-> regs, ret |-> ret, trace |-> trace, registered |-> reg]

(* variant: the whole version word is compared, not its major part *)
axi_dac_probe_whole_version(regs, setup, fail, reg_ret) ==
    LET expected_ver == axi_dac_9_1_b_info
    IN
    IF SetupErr(setup) # 0 THEN PRes(regs, SetupErr(setup), <<>>, FALSE)
    ELSE
    LET w == regmap_write(regs, AXI_REG_RSTN, 0,
                          axi_accessible(AXI_REG_RSTN), fail # 1)
    IN
    IF w.ret # 0 THEN PRes(w.regs, w.ret, w.trace, FALSE)
    ELSE
    LET r == regmap_read(w.regs, ADI_AXI_REG_VERSION,
                         axi_accessible(ADI_AXI_REG_VERSION), fail # 2)
        ver == w.regs[ADI_AXI_REG_VERSION]
        t == w.trace \o r.trace
    IN
    IF r.ret # 0 THEN PRes(w.regs, r.ret, t, FALSE)
    ELSE IF ver # expected_ver
    THEN PRes(w.regs, -ENODEV, t, FALSE)
    ELSE PRes(w.regs, reg_ret,
              t \o <<Ev("devm_iio_backend_register", 0, 0, reg_ret = 0)>>,
              reg_ret = 0)

(* variant: the result of the reset write is not checked *)
axi_dac_probe_unchecked_reset(regs, setup, fail, reg_ret) ==
    LET expected_ver == axi_dac_9_1_b_info
    IN
    IF SetupErr(setup) # 0 THEN PRes(regs, SetupErr(setup), <<>>, FALSE)
    ELSE
    LET w == regmap_write(regs, AXI_REG_RSTN, 0,
                          axi_accessible(AXI_REG_RSTN), fail # 1)
        r == regmap_read(w.regs, ADI_AXI_REG_VERSION,
                         axi_accessible(ADI_AXI_REG_VERSION), fail # 2)
        ver == w.regs[ADI_AXI_REG_VERSION]
        t == w.trace \o r.trace
    IN
    IF r.ret # 0 THEN PRes(w.regs, r.ret, t, FALSE)
    ELSE IF ADI_AXI_PCORE_VER_MAJOR(ver) # ADI_AXI_PCORE_VER_MAJOR(expected_ver)
    THEN PRes(w.regs, -ENODEV, t, FALSE)
    ELSE PRes(w.regs, reg_ret,
              t \o <<Ev("devm_iio_backend_register", 0, 0, reg_ret = 0)>>,
              reg_ret = 0)

axi_dac_probe(regs, setup, fail, reg_ret) ==
    LET expected_ver == axi_dac_9_1_b_info
    IN
    IF SetupErr(setup) # 0 THEN PRes(regs, SetupErr(setup), <<>>, FALSE)
    ELSE
    LET w == regmap_write(regs, AXI_REG_RSTN, 0,
                          axi_accessible(AXI_REG_RSTN), fail # 1)
    IN
    IF w.ret # 0 THEN PRes(w.regs, w.ret, w.trace, FALSE)
    ELSE
    LET r == regmap_read(w.regs, ADI_AXI_REG_VERSION,
                         axi_accessible(ADI_AXI_REG_VERSION), fail # 2)
        ver == w.regs[ADI_AXI_REG_VERSION]
        t == w.trace \o r.trace
    IN
    IF r.ret # 0 THEN PRes(w.regs, r.ret, t, FALSE)
    ELSE IF ADI_AXI_PCORE_VER_MAJOR(ver) # ADI_AXI_PCORE_VER_MAJOR(expected_ver)
    THEN PRes(w.regs, -ENODEV, t, FALSE)
    ELSE PRes(w.regs, reg_ret,
              t \o <<Ev("devm_iio_backend_register", 0, 0, reg_ret = 0)>>,
              reg_ret = 0)

(* The streaming device and its DMA buffers:                               *)
(*   dma_bufs  DMA buffers allocated and not freed                         *)
(*   attached  buffers attached to the streaming device                    *)
(*   hw_mode   INDIO_BUFFER_HARDWARE is set in indio_dev->modes            *)
(*   dir       direction of the buffer allocated last                      *)
IioInit ==
    [dma_bufs |-> 0, attached |-> 0, hw_mode |-> FALSE, dir |-> "in"]

BRes(dev, ret, name) == [iio |-> dev, ret |-> ret, dma_name |-> name]

(* `prop` is the "dma-names" property ("": absent); alloc_ret and           *)
(* attach_ret are what iio_dmaengine_buffer_alloc() and                     *)
(* iio_device_attach_buffer() return; dma_name is the channel asked for.    *)
axi_dac_request_buffer(dev, prop, alloc_ret, attach_ret) ==
    LET dma_name == IF prop = "" THEN "tx" ELSE prop
    IN
    IF alloc_ret # 0 THEN BRes(dev, alloc_ret, dma_name)
    ELSE
    LET d1 == [dev EXCEPT !.dma_bufs = @ + 1,
                          !.hw_mode = TRUE,
                          !.dir = "out"]
    IN
    IF attach_ret # 0 THEN BRes(d1, attach_ret, dma_name)
    ELSE BRes([d1 EXCEPT !.attached = @ + 1], 0, dma_name)

axi_dac_free_buffer(dev) ==
    [dev EXCEPT !.dma_bufs = @ - 1]

(* Raw attribute access of the backend (the functions the ops table names  *)
(* axi_dac_read_raw / axi_dac_write_raw).  `out` says whether the call      *)
(* produced a value (read) or changed anything (write).                     *)
RawRes(ret, out) == [ret |-> ret, out |-> out]

axi_dac_read_raw(mask) ==
    CASE mask = "IIO_CHAN_INFO_SCALE" -> RawRes(0, FALSE)
      [] mask = "IIO_CHAN_INFO_FREQUENCY" -> RawRes(0, FALSE)
      [] mask = "IIO_CHAN_INFO_PHASE" -> RawRes(0, FALSE)
      [] OTHER -> RawRes(-EINVAL, FALSE)

axi_dac_write_raw(val, mask) ==
    CASE mask = "IIO_CHAN_INFO_SCALE" -> RawRes(0, FALSE)
      [] mask = "IIO_CHAN_INFO_FREQUENCY" -> RawRes(0, FALSE)
      [] mask = "IIO_CHAN_INFO_PHASE" -> RawRes(0, FALSE)
      [] OTHER -> RawRes(-EINVAL, FALSE)

----------------------------------------------------------------------------
(* AD9739A chip: register definitions *)
AD9739A_REG_MODE == 0
AD9739A_RESET_MASK == BIT(5)
AD9739A_REG_LVDS_REC_CNT4 == \h13
AD9739A_FINE_DEL_SKW_MASK == GENMASK(3, 0)
AD9739A_REG_CROSS_CNT1 == \h22
AD9739A_REG_CROSS_CNT2 == \h23
AD9739A_REG_PHS_DET == \h24
AD9739A_REG_MU_DUTY == \h25
AD9739A_REG_MU_CNT1 == \h26
AD9739A_MU_EN_MASK == BIT(0)
AD9739A_REG_MU_CNT2 == \h27
AD9739A_REG_MU_CNT3 == \h28
AD9739A_REG_MU_CNT4 == \h29
AD9739A_MU_CNT4_DEFAULT == \hcb
AD9739A_REG_MU_STAT1 == \h2A
AD9739A_MU_LOCK_MASK == BIT(0)
AD9739A_REG_ANA_CNT_1 == \h32
AD9739A_REG_ID == \h35
AD9739A_ID == \h24
AD9739A_LOCK_N_TRIES == 3

AD9739A_REG_IS_RESERVED(reg) ==
    \/ reg = \h5 \/ reg = \h9 \/ reg = \h0E \/ reg = \h0D
    \/ reg = \h2B \/ reg = \h2C \/ reg = \h34

(* Clock rates are unsigned long; 2500 * MEGA does not fit the checker's   *)
(* integers, so a rate is kept in two limbs: rate = mega * MEGA + units.   *)
MEGA == 1000000
Rate(m, u) == [mega |-> m, units |-> u]
RateLess(a, b) == a.mega < b.mega \/ (a.mega = b.mega /\ a.units < b.units)
RateSub(a, b) ==
    IF a.units >= b.units THEN Rate(a.mega - b.mega, a.units - b.units)
    ELSE Rate(a.mega - b.mega - 1, a.units + MEGA - b.units)
RateAdd(a, b) ==
    IF a.units + b.units < MEGA THEN Rate(a.mega + b.mega, a.units + b.units)
    ELSE Rate(a.mega + b.mega + 1, a.units + b.units - MEGA)

AD9739A_MIN_DAC_CLK == Rate(1600, 0)
AD9739A_MAX_DAC_CLK == Rate(2500, 0)
AD9739A_DAC_CLK_RANGE ==
    RateAdd(RateSub(AD9739A_MAX_DAC_CLK, AD9739A_MIN_DAC_CLK), Rate(0, 1))

(* in_range(val, start, len): (val - start) < len in unsigned arithmetic;  *)
(* below start the difference wraps to a value above every len used here.  *)
in_range(val, start, len) ==
    /\ ~RateLess(val, start)
    /\ RateLess(RateSub(val, start), len)

(* variant: the unused range starts at the Mu status register itself *)
ad9739a_reg_accessible_from_stat1(reg) ==
    IF AD9739A_REG_IS_RESERVED(reg) THEN FALSE
    ELSE IF reg >= AD9739A_REG_MU_STAT1 /\ reg < AD9739A_REG_ANA_CNT_1 THEN FALSE
    ELSE TRUE

ad9739a_reg_accessible(reg) ==
    IF AD9739A_REG_IS_RESERVED(reg) THEN FALSE
    ELSE IF reg > AD9739A_REG_MU_STAT1 /\ reg < AD9739A_REG_ANA_CNT_1 THEN FALSE
    ELSE TRUE

(* ad9739a_regmap_config: readable_reg = writeable_reg =                    *)
(* ad9739a_reg_accessible, max_register = AD9739A_REG_ID                    *)
ad9739a_max_register == AD9739A_REG_ID
chip_accessible(reg) == reg <= ad9739a_max_register /\ ad9739a_reg_accessible(reg)

(* the two callbacks of ad9739a_regmap_config, and the register map's      *)
(* check of an address before a read / a write                             *)
ad9739a_readable_reg(reg) == ad9739a_reg_accessible(reg)
ad9739a_writeable_reg(reg) == ad9739a_reg_accessible(reg)
regmap_readable(reg) == reg <= ad9739a_max_register /\ ad9739a_readable_reg(reg)
regmap_writeable(reg) == reg <= ad9739a_max_register /\ ad9739a_writeable_reg(reg)

(* the registers the driver addresses *)
ChipRegs ==
    {AD9739A_REG_MODE, AD9739A_REG_LVDS_REC_CNT4, AD9739A_REG_CROSS_CNT1,
     AD9739A_REG_CROSS_CNT2, AD9739A_REG_PHS_DET, AD9739A_REG_MU_DUTY,
     AD9739A_REG_MU_CNT1, AD9739A_REG_MU_CNT2, AD9739A_REG_MU_CNT3,
     AD9739A_REG_MU_CNT4, AD9739A_REG_MU_STAT1, AD9739A_REG_ID}

(* Register-map calls on the chip.  A context c = [regs, trace, n] carries *)
(* the register file, the events so far and the number of bus transactions *)
(* made; transaction number `sfail` fails on the bus (0: none).            *)
Ctx(regs, trace, n) == [regs |-> regs, trace |-> trace, n |-> n]
CRes(regs, ret, trace, n) == [regs |-> regs, ret |-> ret, trace |-> trace, n |-> n]

spi_write(c, reg, val, sfail) ==
    LET r == regmap_write(c.regs, reg, val, chip_accessible(reg), c.n + 1 # sfail)
    IN  CRes(r.regs, r.ret, c.trace \o r.trace, c.n + 1)

spi_update_bits(c, reg, mask, val, sfail) ==
    LET r == regmap_update_bits(c.regs, reg, mask, val, chip_accessible(reg),
                                c.n + 1 # sfail)
    IN  CRes(r.regs, r.ret, c.trace \o r.trace, c.n + 1)

spi_read(c, reg, sfail) ==
    LET r == regmap_read(c.regs, reg, chip_accessible(reg), c.n + 1 # sfail)
    IN  CRes(r.regs, r.ret, c.trace \o r.trace, c.n + 1)

(* regmap_multi_reg_write: the pairs are written in order, stopping at the *)
(* first error.                                                            *)
RECURSIVE regmap_multi_reg_write(_, _, _)
regmap_multi_reg_write(c, regs_seq, sfail) ==
    IF regs_seq = <<>> THEN CRes(c.regs, 0, c.trace, c.n)
    ELSE LET w == spi_write(c, Head(regs_seq)[1], Head(regs_seq)[2], sfail)
         IN  IF w.ret # 0 THEN w
             ELSE regmap_multi_reg_write(w, Tail(regs_seq), sfail)

(* regmap_read_poll_timeout on the lock bit: `locked` is whether the chip  *)
(* asserts the bit before the timeout.                                     *)
regmap_read_poll_timeout(c, reg, mask, locked, sfail) ==
    IF ~(chip_accessible(reg) /\ c.n + 1 # sfail)
    THEN CRes(c.regs, -EIO, c.trace \o <<Ev("poll", reg, 0, FALSE)>>, c.n + 1)
    ELSE LET v == IF locked THEN Or(c.regs[reg], mask) ELSE AndNot(c.regs[reg], mask)
         IN  CRes([c.regs EXCEPT ![reg] = v],
                  IF locked THEN 0 ELSE -ETIMEDOUT,
                  c.trace \o <<Ev("poll", reg, v, TRUE)>>, c.n + 1)

(* ad9739a_reset.  gpio: "none" (no reset line), "present", "error".       *)
(* line: level of the reset line afterwards (-1: no line held).            *)
RRes(c, ret, line) ==
    [regs |-> c.regs, ret |-> ret, trace |-> c.trace, n |-> c.n, line |-> line]

WithLine(c, line) == RRes(c, c.ret, line)

(* variant: the soft-reset bit is cleared right after it was set *)
ad9739a_reset_no_hold(c, gpio, sfail) ==
    IF gpio = "error" THEN RRes(c, -EBUSY, -1)
    ELSE IF gpio = "present"
    THEN RRes(Ctx(c.regs,
                  c.trace \o <<Ev("gpio", 0, 1, TRUE), Delay("ndelay", 40),
                               Ev("gpio", 0, 0, TRUE)>>,
                  c.n), 0, 0)
    ELSE
    LET a == spi_update_bits(c, AD9739A_REG_MODE, AD9739A_RESET_MASK,
                             AD9739A_RESET_MASK, sfail)
    IN
    IF a.ret # 0 THEN RRes(a, a.ret, -1)
    ELSE
    LET b == spi_update_bits(a, AD9739A_REG_MODE, AD9739A_RESET_MASK, 0, sfail)
    IN  RRes(b, b.ret, -1)

ad9739a_reset(c, gpio, sfail) ==
    IF gpio = "error" THEN RRes(c, -EBUSY, -1)
    ELSE IF gpio = "present"
    THEN RRes(Ctx(c.regs,
                  c.trace \o <<Ev("gpio", 0, 1, TRUE), Delay("ndelay", 40),
                               Ev("gpio", 0, 0, TRUE)>>,
                  c.n), 0, 0)
    ELSE
    LET a == spi_update_bits(c, AD9739A_REG_MODE, AD9739A_RESET_MASK,
                             AD9739A_RESET_MASK, sfail)
    IN
    IF a.ret # 0 THEN RRes(a, a.ret, -1)
    ELSE
    LET b == spi_update_bits([a EXCEPT !.trace = @ \o <<Delay("ndelay", 40)>>],
                             AD9739A_REG_MODE, AD9739A_RESET_MASK, 0, sfail)
    IN  RRes(b, b.ret, -1)

ad9739a_clk_mu_ctrl ==
    << <<AD9739A_REG_CROSS_CNT1, \h0f>>,
       <<AD9739A_REG_CROSS_CNT2, \h0f>>,
       <<AD9739A_REG_PHS_DET, \h30>>,
       <<AD9739A_REG_MU_DUTY, \h80>>,
       <<AD9739A_REG_MU_CNT2, \h44>>,
       <<AD9739A_REG_MU_CNT3, \h6c>> >>

(* the Mu lock loop of ad9739a_init, from iteration i; lock_at is the      *)
(* attempt from which the chip reports lock (0: never).  A write error     *)
(* returns from ad9739a_init at once; a poll error goes to the next try.   *)
(* Either way the caller sees a non-zero ret and returns it.               *)
RECURSIVE MuLockLoop(_, _, _, _, _)
MuLockLoop(c, i, ret, lock_at, sfail) ==
    IF ~(i < AD9739A_LOCK_N_TRIES) THEN CRes(c.regs, ret, c.trace, c.n)
    ELSE
    LET w == spi_write(c, AD9739A_REG_MU_CNT4, AD9739A_MU_CNT4_DEFAULT, sfail)
    IN
    IF w.ret # 0 THEN w
    ELSE
    LET e == spi_update_bits(w, AD9739A_REG_MU_CNT1, AD9739A_MU_EN_MASK,
                             AD9739A_MU_EN_MASK, sfail)
    IN
    IF e.ret # 0 THEN e
    ELSE
    LET p == regmap_read_poll_timeout(e, AD9739A_REG_MU_STAT1, AD9739A_MU_LOCK_MASK,
                                      lock_at # 0 /\ i + 1 >= lock_at, sfail)
    IN
    IF p.ret = 0 THEN p
    ELSE MuLockLoop(p, i + 1, p.ret, lock_at, sfail)

RECURSIVE SkewLoop(_, _, _)
SkewLoop(c, i, sfail) ==
    IF ~(i < AD9739A_LOCK_N_TRIES) THEN CRes(c.regs, 0, c.trace, c.n)
    ELSE
    LET u == spi_update_bits(c, AD9739A_REG_LVDS_REC_CNT4,
                             AD9739A_FINE_DEL_SKW_MASK, 2, sfail)
    IN  IF u.ret # 0 THEN u ELSE SkewLoop(u, i + 1, sfail)

(* variant: the result of the lock loop is not looked at *)
ad9739a_init_unchecked_lock(c, lock_at, garbage, sfail) ==
    LET m == regmap_multi_reg_write(c, ad9739a_clk_mu_ctrl, sfail)
    IN
    IF m.ret # 0 THEN m
    ELSE
    LET k == SkewLoop(MuLockLoop(m, 0, 0, lock_at, sfail), 0, sfail)
    IN  IF k.ret # 0 THEN k
        ELSE CRes(k.regs, garbage, k.trace, k.n)

(* ad9739a_init.  Control reaches the closing brace of this int function   *)
(* without a return statement once the skew loop ends: the value the       *)
(* caller then reads is not defined by the language, and `garbage` is the  *)
(* value the build happens to deliver.                                     *)
ad9739a_init(c, lock_at, garbage, sfail) ==
    LET m == regmap_multi_reg_write(c, ad9739a_clk_mu_ctrl, sfail)
    IN
    IF m.ret # 0 THEN m
    ELSE
    LET l == MuLockLoop(m, 0, 0, lock_at, sfail)
    IN
    IF l.ret # 0 THEN l
    ELSE
    LET k == SkewLoop(l, 0, sfail)
    IN  IF k.ret # 0 THEN k
        ELSE CRes(k.regs, garbage, k.trace, k.n)

----------------------------------------------------------------------------
(* The IIO backend core between a frontend and the backend's ops table *)
Call(op, chan, data) == [op |-> op, chan |-> chan, data |-> data]

(* bind: NotFound without a registered backend, AlreadyBound when the      *)
(* backend is held by another handle                                       *)
(* variant: a backend that is held is handed out again *)
devm_iio_backend_get_shared(is_registered, is_bound, lookup_ret) ==
    IF lookup_ret # 0 THEN lookup_ret
    ELSE IF ~is_registered THEN -ENOENT
    ELSE 0

devm_iio_backend_get(is_registered, is_bound, lookup_ret) ==
    IF lookup_ret # 0 THEN lookup_ret
    ELSE IF ~is_registered THEN -ENOENT
    ELSE IF is_bound THEN -EBUSY
    ELSE 0

iio_backend_data_source_set(regs, chan, data, fail) ==
    IF data >= IIO_BACKEND_DATA_SOURCE_MAX
    THEN [regs |-> regs, ret |-> -EINVAL, trace |-> <<>>, calls |-> <<>>]
    ELSE LET r == axi_dac_data_source_set(regs, chan, data, fail)
         IN  [regs |-> r.regs, ret |-> r.ret, trace |-> r.trace,
              calls |-> <<Call("data_source_set", chan, data)>>]

devm_iio_backend_request_buffer(dev, prop, alloc_ret, attach_ret) ==
    axi_dac_request_buffer(dev, prop, alloc_ret, attach_ret)

(* Device-managed release of what a frontend probe acquired: the streaming *)
(* device is freed; a buffer whose request succeeded is freed through      *)
(* free_buffer.                                                            *)
devm_release(dev, buffer_requested) ==
    LET d == IF buffer_requested THEN axi_dac_free_buffer(dev) ELSE dev
    IN  [IioInit EXCEPT !.dma_bufs = d.dma_bufs]

----------------------------------------------------------------------------
(* AD9739A frontend *)
FRes(spi, dev, ret, trace, calls, rate, back, line) ==
    [spi |-> spi, iio |-> dev, ret |-> ret, trace |-> trace, calls |-> calls,
     sample_rate |-> rate, back |-> back, line |-> line]

NoRate == Rate(0, 0)

(* ad9739a_probe.  `in` holds what the collaborators answer:               *)
(*   setup "ok" | "kzalloc" | "clk" | "regmap"; rate (clk_get_rate);       *)
(*   gpio; sfail; lock_at; garbage; lookup_ret; prop, alloc_ret,           *)
(*   attach_ret (buffer request); register_ret (devm_iio_device_register). *)
(* The chip's part, each step given what the step before it left: a step  *)
(* that failed ends the function with its result.                          *)
(* variant: ad9739a_init runs whatever ad9739a_reset returned *)
ad9739a_probe_init_unchecked_reset(rst, in) ==
    WithLine(ad9739a_init(rst, in.lock_at, in.garbage, in.sfail), rst.line)

(* ad9739a_init, run when ad9739a_reset returned 0 *)
ad9739a_probe_init(rst, in) ==
    IF rst.ret # 0 THEN rst
    ELSE WithLine(ad9739a_init(rst, in.lock_at, in.garbage, in.sfail), rst.line)

(* identity check and ad9739a_reset, after the read of the ID register *)
ad9739a_probe_reset(id, in) ==
    IF id.ret # 0 THEN RRes(id, id.ret, -1)
    ELSE IF id.regs[AD9739A_REG_ID] # AD9739A_ID THEN RRes(id, -ENODEV, -1)
    ELSE ad9739a_probe_init(ad9739a_reset(id, in.gpio, in.sfail), in)

ad9739a_probe_chip(spi, t0, in) ==
    ad9739a_probe_reset(spi_read(Ctx(spi, t0, 0), AD9739A_REG_ID, in.sfail), in)

(* The backend's part, after the chip's part left c: bind, buffer request, *)
(* registration of the streaming device.                                   *)
ad9739a_probe_backend(c, dev, is_registered, is_bound, in) ==
    IF c.ret # 0 THEN FRes(c.regs, dev, c.ret, c.trace, <<>>, NoRate, FALSE, -1)
    ELSE
    LET get == devm_iio_backend_get(is_registered, is_bound, in.lookup_ret)
        t1 == c.trace \o <<Ev("devm_iio_backend_get", 0, 0, get = 0)>>
        c1 == <<Call("get", 0, 0)>>
    IN
    IF get # 0 THEN FRes(c.regs, dev, get, t1, c1, NoRate, FALSE, -1)
    ELSE
    LET buf == devm_iio_backend_request_buffer(dev, in.prop, in.alloc_ret,
                                               in.attach_ret)
        t2 == t1 \o <<Ev("request_buffer", 0, 0, buf.ret = 0)>>
        c2 == c1 \o <<Call("request_buffer", 0, 0)>>
    IN
    IF buf.ret # 0
    THEN FRes(c.regs, devm_release(buf.iio, FALSE), buf.ret, t2, c2, NoRate,
              FALSE, -1)
    ELSE
    LET t3 == t2 \o <<Ev("devm_iio_device_register", 0, 0, in.register_ret = 0)>>
    IN
    IF in.register_ret # 0
    THEN FRes(c.regs, devm_release(buf.iio, TRUE), in.register_ret, t3, c2,
              NoRate, FALSE, -1)
    ELSE FRes(c.regs, buf.iio, 0, t3, c2, in.rate, TRUE, c.line)

ad9739a_probe(spi, dev, is_registered, is_bound, in) ==
    IF in.setup = "kzalloc" THEN FRes(spi, dev, -ENOMEM, <<>>, <<>>, NoRate, FALSE, -1)
    ELSE IF in.setup = "clk" THEN FRes(spi, dev, -ENOENT, <<>>, <<>>, NoRate, FALSE, -1)
    ELSE IF ~in_range(in.rate, AD9739A_MIN_DAC_CLK, AD9739A_DAC_CLK_RANGE)
    THEN FRes(spi, dev, -EINVAL, <<Ev("clk_get_rate", 0, in.rate.mega, TRUE)>>,
              <<>>, NoRate, FALSE, -1)
    ELSE IF in.setup = "regmap"
    THEN FRes(spi, dev, -ENOMEM, <<Ev("clk_get_rate", 0, in.rate.mega, TRUE)>>,
              <<>>, NoRate, FALSE, -1)
    ELSE ad9739a_probe_backend(
             ad9739a_probe_chip(spi, <<Ev("clk_get_rate", 0, in.rate.mega, TRUE)>>, in),
             dev, is_registered, is_bound, in)

(* attribute access.  iio_backend_read_raw / iio_backend_write_raw hand the *)
(* call to the backend's handler.                                          *)
IIO_VAL_INT == 1

iio_backend_read_raw(mask) == axi_dac_read_raw(mask)
iio_backend_write_raw(val, mask) == axi_dac_write_raw(val, mask)

(* `*val = st->sample_rate`: an unsigned long stored into an int keeps the *)
(* low 32 bits, read as two's complement                                   *)
INT_MAX == 2147483647
int_of_ulong(r) ==
    IF RateLess(Rate(INT_MAX \div MEGA, INT_MAX % MEGA), r)
    THEN (r.mega - 4294) * MEGA + (r.units - 967296)
    ELSE r.mega * MEGA + r.units

(* a call of a raw handler through the backend's ops table *)
RawCall(op, mask, val) == [op |-> op, mask |-> mask, val |-> val]

(* result of a frontend raw handler: ret, whether a value was produced or  *)
(* applied, the value handed back, the backend calls made                  *)
FRawRes(ret, out, val, calls) == [ret |-> ret, out |-> out, val |-> val, calls |-> calls]

(* the result of the backend's handler, returned as it is *)
Forwarded(r, call) == FRawRes(r.ret, r.out, 0, <<call>>)

ad9739a_read_raw(sample_rate, mask) ==
    IF mask = "IIO_CHAN_INFO_SAMP_FREQ"
    THEN FRawRes(IIO_VAL_INT, TRUE, int_of_ulong(sample_rate), <<>>)
    ELSE Forwarded(iio_backend_read_raw(mask), RawCall("read_raw", mask, 0))

ad9739a_write_raw(val, mask) ==
    Forwarded(iio_backend_write_raw(val, mask), RawCall("write_raw", mask, val))

(* stream callbacks: results carry both register files *)
SRes(axi, spi, ret, axi_trace, spi_trace, calls) ==
    [axi |-> axi, spi |-> spi, ret |-> ret, axi_trace |-> axi_trace,
     spi_trace |-> spi_trace, calls |-> calls]

ad9739a_buffer_preenable(axi, spi, fail) ==
    LET r == iio_backend_data_source_set(axi, 0, IIO_BACKEND_EXTERNAL, fail)
    IN  SRes(r.regs, spi, r.ret, r.trace, <<>>, r.calls)

(* variant: postdisable selects the external source again *)
ad9739a_buffer_postdisable_external(axi, spi, fail) ==
    LET r == iio_backend_data_source_set(axi, 0, IIO_BACKEND_EXTERNAL, fail)
    IN  SRes(r.regs, spi, r.ret, r.trace, <<>>, r.calls)

ad9739a_buffer_postdisable(axi, spi, fail) ==
    LET r == iio_backend_data_source_set(axi, 0, IIO_BACKEND_INTERNAL_CW, fail)
    IN  SRes(r.regs, spi, r.ret, r.trace, <<>>, r.calls)

----------------------------------------------------------------------------
(* State *)
(* channels whose mux register lies inside the register map *)
NumAxiChannels == ((axi_max_register - \h0418) \div \h40) + 1

AxiRegs ==
    {ADI_AXI_REG_VERSION, AXI_REG_RSTN}
        \cup {AXI_REG_CHAN_CNTRL_7(c) : c \in 0 .. NumAxiChannels - 1}

(* what the hardware may hold before any driver runs *)
PriorRstn ==
    {0, AXI_REG_RSTN_MMCM_RSTN,
     Or(AXI_REG_RSTN_RSTN, AXI_REG_RSTN_MMCM_RSTN),
     Or(AXI_REG_RSTN_CE_N, Or(AXI_REG_RSTN_RSTN, AXI_REG_RSTN_MMCM_RSTN))}

PriorChanCntrl == {AXI_DAC_DATA_INTERNAL_TONE, AXI_DAC_DATA_DMA, BIT(4) + AXI_DAC_DATA_DMA}

CoreVersions ==
    {ADI_AXI_PCORE_VER(9, 1, CHAR_b), ADI_AXI_PCORE_VER(9, 2, CHAR_b + 1),
     ADI_AXI_PCORE_VER(10, 1, CHAR_b), ADI_AXI_PCORE_VER(256 + 9, 1, CHAR_b)}

AllOk(trace) == \A i \in 1 .. Len(trace) : trace[i].ok

(* The record a handler leaves behind:                                     *)
(*   op, arg, ret   the handler, its arguments, its return value           *)
(*   axi, spi       its events on the core's and on the chip's side        *)
(*   calls          the capability calls it made                           *)
(*   out            read_raw: a value was produced; write_raw: applied     *)
(*   pre_rstn       the reset register before it ran                       *)
(*   same           it left registers, registry and buffers as they were   *)
(*   again          the handler before it was the same one, with the same  *)
(*                  arguments                                              *)
(*   prev_ok        the handler before it returned 0 and every bus         *)
(*                  transaction of it succeeded                            *)
(*   val            the value a read handed back through *val (0: none)    *)
Ran(op, arg, ret, axi, spi, calls, out) ==
    [op |-> op, arg |-> arg, ret |-> ret, axi |-> axi, spi |-> spi,
     calls |-> calls, out |-> out, val |-> 0,
     pre_rstn |-> axi_regs[AXI_REG_RSTN],
     same |-> (axi_regs' = axi_regs /\ registered' = registered /\ iio' = iio
               /\ spi_regs' = spi_regs),
     again |-> (last.op = op /\ last.arg = arg),
     prev_ok |-> (last.ret = 0 /\ AllOk(last.axi) /\ AllOk(last.spi))]

InitBackend ==
    /\ \E rstn \in PriorRstn, sel \in PriorChanCntrl, ver \in CoreVersions :
          axi_regs = [r \in AxiRegs |->
                         CASE r = ADI_AXI_REG_VERSION -> ver
                           [] r = AXI_REG_RSTN -> rstn
                           [] r = AXI_REG_CHAN_CNTRL_7(0) -> sel
                           [] OTHER -> 0]
    /\ registered = FALSE
    /\ iio = IioInit

----------------------------------------------------------------------------
(* The backend's handlers *)
Setups == {"ok", "kzalloc", "match", "clk", "ioremap", "regmap"}

BackendProbe ==
    /\ UNCHANGED <<iio, spi_regs, fe, streaming, other_back>>
    /\ ~registered
    /\ \E setup \in Setups, fail \in 0 .. 2, reg_ret \in {0, -ENOMEM} :
          LET p == axi_dac_probe(axi_regs, setup, fail, reg_ret)
          IN  /\ axi_regs' = p.regs
              /\ registered' = p.registered
              /\ last' = Ran("probe", <<>>, p.ret, p.trace, <<>>, <<>>, FALSE)

(* The capability operations called directly through the ops table by the  *)
(* holder of a handle.                                                      *)
Chans == {0, NumAxiChannels - 1, NumAxiChannels, 2 ^ 26}
Sources == IIO_BACKEND_INTERNAL_CW .. IIO_BACKEND_DATA_SOURCE_MAX
Masks ==
    {"IIO_CHAN_INFO_RAW", "IIO_CHAN_INFO_SCALE", "IIO_CHAN_INFO_FREQUENCY",
     "IIO_CHAN_INFO_PHASE", "IIO_CHAN_INFO_SAMP_FREQ"}

OpEnable ==
    /\ UNCHANGED <<registered, iio, spi_regs, fe, streaming, other_back>>
    /\ registered
    /\ \E fail \in 0 .. 2 :
          LET r == axi_dac_enable(axi_regs, fail)
          IN  /\ axi_regs' = r.regs
              /\ last' = Ran("enable", <<>>, r.ret, r.trace, <<>>, <<>>, FALSE)

OpDisable ==
    /\ UNCHANGED <<registered, iio, spi_regs, fe, streaming, other_back>>
    /\ registered
    /\ \E fail \in 0 .. 1 :
          LET r == axi_dac_disable(axi_regs, fail)
          IN  /\ axi_regs' = r.regs
              /\ last' = Ran("disable", <<>>, r.ret, r.trace, <<>>, <<>>, FALSE)

OpDataSourceSet ==
    /\ UNCHANGED <<registered, iio, spi_regs, fe, streaming, other_back>>
    /\ registered
    /\ \E chan \in Chans, data \in Sources, fail \in 0 .. 1 :
          LET r == axi_dac_data_source_set(axi_regs, chan, data, fail)
          IN  /\ axi_regs' = r.regs
              /\ last' = Ran("data_source_set", <<chan, data>>, r.ret, r.trace,
                             <<>>, <<>>, FALSE)

OpRequestBuffer ==
    /\ UNCHANGED <<axi_regs, registered, spi_regs, fe, streaming, other_back>>
    /\ registered
    /\ iio.dma_bufs < MaxBuffers
    /\ iio.attached < MaxBuffers
    /\ \E prop \in {"", "rx"}, alloc_ret \in {0, -ENODEV}, attach_ret \in {0, -ENOMEM} :
          LET r == axi_dac_request_buffer(iio, prop, alloc_ret, attach_ret)
          IN  /\ iio' = r.iio
              /\ last' = Ran("request_buffer", <<r.dma_name>>, r.ret, <<>>, <<>>, <<>>,
                             FALSE)

OpFreeBuffer ==
    /\ UNCHANGED <<axi_regs, registered, spi_regs, fe, streaming, other_back>>
    /\ registered
    /\ iio.dma_bufs > 0
    /\ iio' = axi_dac_free_buffer(iio)
    /\ last' = Ran("free_buffer", <<>>, 0, <<>>, <<>>, <<>>, FALSE)

OpReadRaw ==
    /\ UNCHANGED <<axi_regs, registered, iio, spi_regs, fe, streaming, other_back>>
    /\ registered
    /\ \E mask \in Masks :
          LET r == axi_dac_read_raw(mask)
          IN  last' = Ran("read_raw", <<mask>>, r.ret, <<>>, <<>>, <<>>, r.out)

OpWriteRaw ==
    /\ UNCHANGED <<axi_regs, registered, iio, spi_regs, fe, streaming, other_back>>
    /\ registered
    /\ \E mask \in Masks, val \in {0, 1} :
          LET r == axi_dac_write_raw(val, mask)
          IN  last' = Ran("write_raw", <<mask, val>>, r.ret, <<>>, <<>>, <<>>, r.out)

----------------------------------------------------------------------------
(* The frontend's handlers *)
ChipIds == {AD9739A_ID, AD9739A_ID + 1}

ClkRates ==
    {RateSub(AD9739A_MIN_DAC_CLK, Rate(0, 1)), AD9739A_MIN_DAC_CLK,
     Rate(2000, 0), AD9739A_MAX_DAC_CLK,
     RateAdd(AD9739A_MAX_DAC_CLK, Rate(0, 1))}

(* the bus transactions the longest probe makes on the chip *)
MaxSpiCalls ==
    1 + 2 + Len(ad9739a_clk_mu_ctrl) + 3 * AD9739A_LOCK_N_TRIES + AD9739A_LOCK_N_TRIES

InitGarbage == {0, 1, -EINVAL}

(* What the collaborators answer during one frontend probe.  The answers   *)
(* are varied family by family around a run in which everything succeeds:  *)
(* resources and clock rate; reset line, bus failure and lock; the value   *)
(* left by ad9739a_init with bind, buffer and registration results.        *)
ProbeOk ==
    [setup |-> "ok", rate |-> Rate(2000, 0), gpio |-> "none", sfail |-> 0,
     lock_at |-> 1, garbage |-> 0, lookup_ret |-> 0, prop |-> "",
     alloc_ret |-> 0, attach_ret |-> 0, register_ret |-> 0]

ProbeInputsAll ==
    {[ProbeOk EXCEPT !.setup = s, !.rate = r] :
        s \in {"ok", "kzalloc", "clk", "regmap"}, r \in ClkRates}
    \cup
    {[ProbeOk EXCEPT !.gpio = g, !.sfail = f, !.lock_at = l] :
        g \in {"none", "present", "error"}, f \in 0 .. MaxSpiCalls,
        l \in 0 .. AD9739A_LOCK_N_TRIES}
    \cup
    {[ProbeOk EXCEPT !.garbage = g, !.lookup_ret = l, !.alloc_ret = a,
                     !.attach_ret = t, !.register_ret = r] :
        g \in InitGarbage, l \in {0, -ENODEV}, a \in {0, -ENODEV},
        t \in {0, -ENOMEM}, r \in {0, -ENOMEM}}

(* the answers tried when both drivers run together: every stage's outcome *)
(* once                                                                    *)
ProbeInputs ==
    {ProbeOk,
     [ProbeOk EXCEPT !.rate = RateAdd(AD9739A_MAX_DAC_CLK, Rate(0, 1))],
     [ProbeOk EXCEPT !.gpio = "present"],
     [ProbeOk EXCEPT !.sfail = 1],
     [ProbeOk EXCEPT !.lock_at = 0],
     [ProbeOk EXCEPT !.lock_at = 2],
     [ProbeOk EXCEPT !.garbage = 1],
     [ProbeOk EXCEPT !.garbage = -EINVAL],
     [ProbeOk EXCEPT !.lookup_ret = -ENODEV],
     [ProbeOk EXCEPT !.alloc_ret = -ENODEV],
     [ProbeOk EXCEPT !.attach_ret = -ENOMEM],
     [ProbeOk EXCEPT !.register_ret = -ENOMEM]}

InitFrontend ==
    /\ \E id \in ChipIds :
          spi_regs = [r \in ChipRegs |-> IF r = AD9739A_REG_ID THEN id ELSE 0]
    /\ fe = [state |-> "Unbound", sample_rate |-> NoRate, back |-> FALSE, line |-> -1]
    /\ streaming = FALSE
    /\ other_back = FALSE

(* what a probe that returned p leaves behind: the device is Operational  *)
(* only when it returned 0; `in` is what the collaborators answered        *)
Probed(p, in) ==
    /\ spi_regs' = p.spi
    /\ iio' = p.iio
    /\ fe' = [state |-> IF p.ret = 0 THEN "Operational" ELSE "Unbound",
              sample_rate |-> p.sample_rate, back |-> p.back, line |-> p.line]
    /\ last' = Ran("fe_probe", <<in>>, p.ret, <<>>, p.trace, p.calls, FALSE)

FrontendProbe ==
    /\ UNCHANGED <<axi_regs, registered, streaming, other_back>>
    /\ fe.state = "Unbound"
    /\ iio.dma_bufs < MaxBuffers
    /\ \E in \in ProbeInputs :
          Probed(ad9739a_probe(spi_regs, iio, registered, other_back, in), in)

(* The streaming framework calls preenable when a stream starts; the       *)
(* stream runs only if it returns 0.                                       *)
StreamPreenable ==
    /\ UNCHANGED <<registered, iio, fe, other_back>>
    /\ fe.state = "Operational"
    /\ ~streaming
    /\ \E fail \in 0 .. 1 :
          LET r == ad9739a_buffer_preenable(axi_regs, spi_regs, fail)
          IN  /\ axi_regs' = r.axi
              /\ spi_regs' = r.spi
              /\ streaming' = (r.ret = 0)
              /\ last' = Ran("preenable", <<>>, r.ret, r.axi_trace, r.spi_trace,
                             r.calls, FALSE)

StreamPostdisable ==
    /\ UNCHANGED <<registered, iio, fe, other_back>>
    /\ fe.state = "Operational"
    /\ streaming
    /\ \E fail \in 0 .. 1 :
          LET r == ad9739a_buffer_postdisable(axi_regs, spi_regs, fail)
          IN  /\ axi_regs' = r.axi
              /\ spi_regs' = r.spi
              /\ streaming' = FALSE
              /\ last' = Ran("postdisable", <<>>, r.ret, r.axi_trace, r.spi_trace,
                             r.calls, FALSE)

(* attribute reads and writes on the registered streaming device *)
RawRan(op, arg, r) ==
    [Ran(op, arg, r.ret, <<>>, <<>>, r.calls, r.out) EXCEPT !.val = r.val]

FeReadRaw ==
    /\ UNCHANGED <<axi_regs, registered, iio, spi_regs, fe, streaming, other_back>>
    /\ fe.state = "Operational"
    /\ \E mask \in Masks :
          last' = RawRan("fe_read_raw", <<mask>>, ad9739a_read_raw(fe.sample_rate, mask))

FeWriteRaw ==
    /\ UNCHANGED <<axi_regs, registered, iio, spi_regs, fe, streaming, other_back>>
    /\ fe.state = "Operational"
    /\ \E mask \in Masks, val \in {0, 1} :
          last' = RawRan("fe_write_raw", <<mask, val>>, ad9739a_write_raw(val, mask))

(* The frontend device detaches while no stream runs: its device-managed   *)
(* resources are released in reverse order.                                *)
FrontendRemove ==
    /\ UNCHANGED <<axi_regs, registered, spi_regs, streaming, other_back>>
    /\ fe.state = "Operational"
    /\ ~streaming
    /\ iio' = devm_release(iio, TRUE)
    /\ fe' = [state |-> "Unbound", sample_rate |-> NoRate, back |-> FALSE, line |-> -1]
    /\ last' = Ran("fe_remove", <<>>, 0, <<>>, <<>>, <<Call("free_buffer", 0, 0)>>, FALSE)

(* Another frontend device of the system binds the same backend, and     *)
(* later detaches: its handle is released with it.                         *)
OtherBind ==
    /\ UNCHANGED <<axi_regs, registered, iio, spi_regs, fe, streaming>>
    /\ ~other_back
    /\ other_back' = (devm_iio_backend_get(registered, fe.back, 0) = 0)
    /\ last' = Ran("other_bind", <<>>, devm_iio_backend_get(registered, fe.back, 0),
                   <<>>, <<>>, <<Call("get", 0, 0)>>, FALSE)

OtherRelease ==
    /\ UNCHANGED <<axi_regs, registered, iio, spi_regs, fe, streaming>>
    /\ other_back
    /\ other_back' = FALSE
    /\ last' = Ran("other_release", <<>>, 0, <<>>, <<>>, <<>>, FALSE)

----------------------------------------------------------------------------
InitLast ==
    last = [op |-> "init", arg |-> <<>>, ret |-> 0, axi |-> <<>>, spi |-> <<>>,
            calls |-> <<>>, out |-> FALSE, val |-> 0,
            pre_rstn |-> axi_regs[AXI_REG_RSTN],
            same |-> TRUE, again |-> FALSE, prev_ok |-> TRUE]

InitAny == InitBackend /\ InitFrontend /\ InitLast

(* the two drivers: a core left held in reset or running *)
Init ==
    /\ InitAny
    /\ axi_regs[AXI_REG_RSTN] \in {0, Or(AXI_REG_RSTN_RSTN, AXI_REG_RSTN_MMCM_RSTN)}
    /\ axi_regs[ADI_AXI_REG_VERSION]
          \in {ADI_AXI_PCORE_VER(9, 1, CHAR_b), ADI_AXI_PCORE_VER(10, 1, CHAR_b)}

(* the backend alone: one chip, never probed *)
OpsInit ==
    /\ InitAny
    /\ spi_regs[AD9739A_REG_ID] = AD9739A_ID

(* the two drivers as the kernel runs them *)
Next ==
    \/ BackendProbe
    \/ FrontendProbe
    \/ StreamPreenable
    \/ StreamPostdisable
    \/ FeReadRaw
    \/ FeWriteRaw
    \/ FrontendRemove
    \/ OtherBind
    \/ OtherRelease

Spec == Init /\ [][Next]_vars

(* one frontend probe of a chip out of power-up, under every answer of the *)
(* collaborators                                                           *)
FrontendProbeOnce ==
    /\ UNCHANGED <<axi_regs, registered, streaming, other_back>>
    /\ fe.state = "Unbound"
    /\ last.op \in {"init", "probe"}
    /\ \E in \in ProbeInputsAll :
          Probed(ad9739a_probe(spi_regs, iio, registered, other_back, in), in)

BackendProbeFirst ==
    /\ last.op # "fe_probe"
    /\ BackendProbe

ProbeNext ==
    \/ BackendProbeFirst
    \/ FrontendProbeOnce
    \/ FeReadRaw
    \/ FeWriteRaw

ProbeSpec == Init /\ [][ProbeNext]_vars

(* The chip's register map asked about any 8-bit address (reg_bits = 8)    *)
(* while the device is bound: `out` is what the callback of the            *)
(* configuration answers, ret what the access returns before the bus is    *)
(* touched.                                                                *)
ChipAddrs == 0 .. 255

ChipRegCheck ==
    /\ UNCHANGED <<axi_regs, registered, iio, spi_regs, fe, streaming, other_back>>
    /\ fe.state = "Operational"
    /\ last.op \in {"fe_probe", "reg_check"}
    /\ \E reg \in ChipAddrs :
          \/ last' = Ran("reg_check", <<"read", reg>>,
                         IF regmap_readable(reg) THEN 0 ELSE -EIO,
                         <<>>, <<>>, <<>>, ad9739a_readable_reg(reg))
          \/ last' = Ran("reg_check", <<"write", reg>>,
                         IF regmap_writeable(reg) THEN 0 ELSE -EIO,
                         <<>>, <<>>, <<>>, ad9739a_writeable_reg(reg))

RegNext ==
    \/ BackendProbeFirst
    \/ FrontendProbeOnce
    \/ ChipRegCheck

RegSpec == Init /\ [][RegNext]_vars

(* the backend alone, its capability operations called in any order *)
OpsNext ==
    \/ BackendProbe
    \/ OpEnable
    \/ OpDisable
    \/ OpDataSourceSet
    \/ OpRequestBuffer
    \/ OpFreeBuffer
    \/ OpReadRaw
    \/ OpWriteRaw

OpsSpec == OpsInit /\ [][OpsNext]_vars

----------------------------------------------------------------------------
(* Readings of the core's registers *)
DataSel(regs, c) == And(regs[AXI_REG_CHAN_CNTRL_7(c)], AXI_DAC_DATA_SEL_MASK)
RunBit(v) == And(v, AXI_REG_RSTN_RSTN) # 0
ClockBit(v) == And(v, AXI_REG_RSTN_MMCM_RSTN) # 0
Running(regs) == RunBit(regs[AXI_REG_RSTN]) /\ ClockBit(regs[AXI_REG_RSTN])
HeldInReset(regs) == regs[AXI_REG_RSTN] = 0

ChanReg0 == AXI_REG_CHAN_CNTRL_7(0)

----------------------------------------------------------------------------
(* C1: once the frontend is Operational, each stream-preenable makes       *)
(* exactly one data_source_set(channel 0, external) and each               *)
(* stream-postdisable exactly one data_source_set(channel 0, internal      *)
(* tone); after a successful preenable channel 0's mux field holds DMA,    *)
(* after a successful postdisable internal tone; neither callback touches  *)
(* a register of the DAC chip.                                             *)
C1_StreamOnlyTogglesDataSource ==
    /\ last.op = "preenable" =>
          /\ fe.state = "Operational"
          /\ last.calls = <<Call("data_source_set", 0, IIO_BACKEND_EXTERNAL)>>
          /\ last.spi = <<>>
          /\ Len(last.axi) = 1 /\ last.axi[1].reg = ChanReg0
          /\ (last.ret = 0 => DataSel(axi_regs, 0) = AXI_DAC_DATA_DMA)
    /\ last.op = "postdisable" =>
          /\ fe.state = "Operational"
          /\ last.calls = <<Call("data_source_set", 0, IIO_BACKEND_INTERNAL_CW)>>
          /\ last.spi = <<>>
          /\ Len(last.axi) = 1 /\ last.axi[1].reg = ChanReg0
          /\ (last.ret = 0 => DataSel(axi_regs, 0) = AXI_DAC_DATA_INTERNAL_TONE)

(* a stream was started and stopped on a channel register whose other bits *)
(* were set before the drivers ran                                         *)
C1_Witness ==
    /\ last.op = "postdisable"
    /\ last.ret = 0
    /\ axi_regs[ChanReg0] = BIT(4) + AXI_DAC_DATA_INTERNAL_TONE

(* C2: after a successful frontend probe and a successful stream start the *)
(* backend core is Running (clock-domain reset released and run bit set),  *)
(* and it is still Running after the following stream stop.                *)
C2_CoreRunningAfterStreamStart ==
    ((last.op = "preenable" /\ last.ret = 0) \/ last.op = "postdisable")
        => Running(axi_regs)

(* C3: whenever the backend is registered and no stream is running,        *)
(* channel 0's data source is the internal test tone.                      *)
C3_IdleChannelIsInternalTone ==
    (registered /\ ~streaming)
        => DataSel(axi_regs, 0) = AXI_DAC_DATA_INTERNAL_TONE

(* C4: in every execution of enable(), the run bit is asserted only after  *)
(* the call asserting the clock-domain reset-release bit alone succeeded   *)
(* and the settle delay elapsed; if that first call fails, enable()        *)
(* returns the error and the run bit is not asserted.                      *)
C4_EnableSequencesResetRelease ==
    last.op = "enable" =>
        LET t == last.axi
        IN  /\ \A i \in 1 .. Len(t) :
                  (IsWrite(t[i]) /\ RunBit(t[i].val) /\ ~RunBit(last.pre_rstn)) =>
                      \E k \in 1 .. i - 1, j \in 1 .. i - 1 :
                          /\ k < j
                          /\ t[k].t = "update" /\ t[k].ok
                          /\ t[k].reg = AXI_REG_RSTN
                          /\ ClockBit(t[k].val) /\ ~RunBit(t[k].val)
                          /\ t[j] = Delay("fsleep", 10)
            /\ (RunBit(axi_regs[AXI_REG_RSTN]) /\ ~RunBit(last.pre_rstn)) =>
                  \E i \in 1 .. Len(t) : IsWrite(t[i]) /\ RunBit(t[i].val)
            /\ ~t[1].ok =>
                  /\ last.ret # 0
                  /\ Len(t) = 1
                  /\ last.same

C4_Witness ==
    /\ last.op = "enable"
    /\ last.pre_rstn = 0
    /\ last.ret = 0
    /\ Len(last.axi) = 3
    /\ Running(axi_regs)

VersionRead(t) ==
    /\ Len(t) >= 2
    /\ t[2].t = "read" /\ t[2].reg = ADI_AXI_REG_VERSION /\ t[2].ok

RegisterEvents(t) ==
    {i \in 1 .. Len(t) : t[i].t = "devm_iio_backend_register"}

C6_RegisteredIffMajorMatches ==
    LET ver == axi_regs[ADI_AXI_REG_VERSION]
        same_major ==
            ADI_AXI_PCORE_VER_MAJOR(ver) = ADI_AXI_PCORE_VER_MAJOR(axi_dac_9_1_b_info)
        t == last.axi
    IN  /\ registered => same_major
        /\ (last.op = "probe" /\ VersionRead(t)) =>
              /\ ~same_major =>
                    /\ last.ret = -ENODEV
                    /\ ~registered
                    /\ RegisterEvents(t) = {}
              /\ same_major =>
                    /\ RegisterEvents(t) = {3}
                    /\ registered = t[3].ok
                    /\ (last.ret = 0) = t[3].ok

(* registered with minor and patch different from the match entry's *)
C6_Witness ==
    /\ last.op = "probe"
    /\ registered
    /\ axi_regs[ADI_AXI_REG_VERSION] = ADI_AXI_PCORE_VER(9, 2, CHAR_b + 1)

(* C7: for every prior value of the reset register, backend probe writes   *)
(* it to all-zero before it reads the version register and before it       *)
(* registers the backend; nothing is registered unless that write          *)
(* succeeded; the core is Held-in-reset when probe returns, whether probe  *)
(* succeeds or fails at the version check.                                 *)
C7_ProbeForcesReset ==
    last.op = "probe" =>
        LET t == last.axi
        IN  /\ t # <<>> =>
                  /\ t[1].t = "write" /\ t[1].reg = AXI_REG_RSTN /\ t[1].val = 0
                  /\ (Len(t) > 1 => t[1].ok)
                  /\ (t[1].ok => HeldInReset(axi_regs))
            /\ \A i \in 1 .. Len(t) :
                  t[i].t \in {"read", "devm_iio_backend_register"} => i > 1
            /\ registered => (t # <<>> /\ t[1].ok /\ HeldInReset(axi_regs))
            /\ (VersionRead(t) /\ last.ret = -ENODEV) => HeldInReset(axi_regs)

(* a running core was probed, put in reset and registered *)
C7_Witness ==
    /\ last.op = "probe"
    /\ RunBit(last.pre_rstn)
    /\ registered
    /\ HeldInReset(axi_regs)

(* C8: for every channel index outside the backend's channel range,        *)
(* data_source_set(chan, source) returns an error and performs no register *)
(* write; a source other than internal tone or external/DMA returns        *)
(* -EINVAL and performs no register write.                                 *)
ValidChan(c) == c < NumAxiChannels

NoRegisterWrite(t) == \A i \in 1 .. Len(t) : ~IsWrite(t[i])

C8_BadChannelOrSourceRejected ==
    last.op = "data_source_set" =>
        LET chan == last.arg[1]
            data == last.arg[2]
        IN  /\ ~ValidChan(chan) =>
                  /\ last.ret # 0
                  /\ NoRegisterWrite(last.axi)
                  /\ last.same
            /\ data \notin {IIO_BACKEND_INTERNAL_CW, IIO_BACKEND_EXTERNAL} =>
                  /\ last.ret = -EINVAL
                  /\ NoRegisterWrite(last.axi)
                  /\ last.same

(* C9: if request_buffer fails at any step, no DMA buffer remains          *)
(* allocated, none is attached and the device is not left marked           *)
(* hardware-buffered: the state is the state before the call.              *)
C9_FailedRequestLeavesNothing ==
    (last.op = "request_buffer" /\ last.ret # 0) => last.same

(* C10: read_raw and write_raw never report success as a silent no-op: a   *)
(* return of 0 implies that the value was produced (read) or applied       *)
(* (write).                                                                *)
C10_RawSuccessIsNotANoOp ==
    (last.op \in {"read_raw", "write_raw"} /\ last.ret = 0) => last.out

----------------------------------------------------------------------------
(* C11: on the frontend a read and a write of the sample-rate attribute    *)
(* make no call to the backend; a read or write of any other attribute     *)
(* makes exactly one call to the backend's read_raw / write_raw with the   *)
(* same arguments and returns what the backend's handler returns.          *)
C11_SampleRateLocalOthersForwarded ==
    /\ (last.op \in {"fe_read_raw", "fe_write_raw"}
           /\ last.arg[1] = "IIO_CHAN_INFO_SAMP_FREQ")
          => last.calls = <<>>
    /\ (last.op = "fe_read_raw" /\ last.arg[1] # "IIO_CHAN_INFO_SAMP_FREQ")
          => /\ last.calls = <<RawCall("read_raw", last.arg[1], 0)>>
             /\ last.ret = axi_dac_read_raw(last.arg[1]).ret
    /\ (last.op = "fe_write_raw" /\ last.arg[1] # "IIO_CHAN_INFO_SAMP_FREQ")
          => /\ last.calls = <<RawCall("write_raw", last.arg[1], last.arg[2])>>
             /\ last.ret = axi_dac_write_raw(last.arg[2], last.arg[1]).ret

----------------------------------------------------------------------------
(* Readings of a frontend probe's record *)
ProbeRan == last.op = "fe_probe"
ProbeIn == last.arg[1]
RateOk(r) == in_range(r, AD9739A_MIN_DAC_CLK, AD9739A_DAC_CLK_RANGE)
(* positions of the events of kind t on register reg *)
EventsOn(trace, t, reg) ==
    {i \in 1 .. Len(trace) : trace[i].t = t /\ trace[i].reg = reg}
IdRead(trace) ==
    \E i \in EventsOn(trace, "read", AD9739A_REG_ID) : trace[i].ok
WrongId == spi_regs[AD9739A_REG_ID] # AD9739A_ID

(* C12: the clock-rate range check of a frontend probe runs only after the *)
(* chip ID was read and matched: a probe that fails on the clock range has *)
(* read the ID register, and a probe of a chip with a wrong ID whose       *)
(* resources were acquired and whose ID read succeeded returns -ENODEV     *)
(* whatever the clock rate.                                                *)
C12_ClockCheckedAfterIdentify ==
    ProbeRan =>
        /\ (ProbeIn.setup = "ok" /\ ~RateOk(ProbeIn.rate) /\ last.ret = -EINVAL)
              => IdRead(last.spi)
        /\ (ProbeIn.setup = "ok" /\ ProbeIn.sfail # 1 /\ WrongId)
              => last.ret = -ENODEV

----------------------------------------------------------------------------
(* every collaborator of the probe that ran succeeded: resources, clock    *)
(* rate in range, matching chip ID, reset line, every bus transaction, the *)
(* lock bit within the retry budget, a registered backend, the buffer and  *)
(* the registration of the streaming device                                *)
CollaboratorsOk ==
    /\ ProbeIn.setup = "ok"
    /\ RateOk(ProbeIn.rate)
    /\ ~WrongId
    /\ ProbeIn.gpio # "error"
    /\ ProbeIn.sfail = 0
    /\ ProbeIn.lock_at \in 1 .. AD9739A_LOCK_N_TRIES
    /\ registered
    /\ ProbeIn.lookup_ret = 0
    /\ ProbeIn.alloc_ret = 0
    /\ ProbeIn.attach_ret = 0
    /\ ProbeIn.register_ret = 0

(* C13: a frontend probe all of whose collaborators succeeded returns 0    *)
(* after binding the backend and requesting the buffer, and the device is  *)
(* Operational.                                                            *)
C13_ProbeSucceedsWhenAllSucceed ==
    (ProbeRan /\ CollaboratorsOk) =>
        /\ last.ret = 0
        /\ fe.state = "Operational"
        /\ last.calls = <<Call("get", 0, 0), Call("request_buffer", 0, 0)>>

----------------------------------------------------------------------------
(* the lock attempts of a probe: polls of the lock bit, writes of the      *)
(* default tuning byte, sets of the search/track enable bit                *)
LockPolls == EventsOn(last.spi, "poll", AD9739A_REG_MU_STAT1)
TuningWrites == EventsOn(last.spi, "write", AD9739A_REG_MU_CNT4)
EnableSets == EventsOn(last.spi, "update", AD9739A_REG_MU_CNT1)
SkewWrites == EventsOn(last.spi, "update", AD9739A_REG_LVDS_REC_CNT4)

(* the probe reached the lock loop and every bus transaction succeeded *)
ReachedMuLock ==
    /\ ProbeRan
    /\ ProbeIn.setup = "ok" /\ RateOk(ProbeIn.rate) /\ ~WrongId
    /\ ProbeIn.gpio # "error" /\ ProbeIn.sfail = 0

(* each attempt is: write the tuning byte, set the enable bit, poll *)
AttemptsWellFormed ==
    /\ \A p \in LockPolls :
          /\ p - 2 \in TuningWrites
          /\ last.spi[p - 2].val = AD9739A_MU_CNT4_DEFAULT
          /\ p - 1 \in EnableSets
          /\ And(last.spi[p - 1].val, AD9739A_MU_EN_MASK) = AD9739A_MU_EN_MASK
    /\ Cardinality(TuningWrites) = Cardinality(LockPolls)
    /\ Cardinality(EnableSets) = Cardinality(LockPolls)

(* C14: when the lock bit never asserts the probe makes exactly            *)
(* AD9739A_LOCK_N_TRIES attempts (tuning byte, enable bit, poll), returns  *)
(* -ETIMEDOUT, and makes no register access and no backend call after the  *)
(* last poll; when the bit asserts on attempt k exactly k attempts are     *)
(* made.                                                                   *)
C14_MuLockBoundedRetry ==
    ReachedMuLock =>
        /\ AttemptsWellFormed
        /\ ProbeIn.lock_at = 0 =>
              /\ Cardinality(LockPolls) = AD9739A_LOCK_N_TRIES
              /\ last.ret = -ETIMEDOUT
              /\ Len(last.spi) \in LockPolls
              /\ SkewWrites = {}
              /\ last.calls = <<>>
              /\ fe.state = "Unbound"
        /\ ProbeIn.lock_at # 0 => Cardinality(LockPolls) = ProbeIn.lock_at

(* the lock bit never asserted during a probe that got as far as the loop *)
C14_Witness ==
    /\ ReachedMuLock
    /\ ProbeIn.lock_at = 0
    /\ last.ret = -ETIMEDOUT
    /\ Cardinality(LockPolls) = AD9739A_LOCK_N_TRIES

----------------------------------------------------------------------------
(* C15: the retry count shared by the lock loop and the skew loop is 2: a  *)
(* probe whose bus transactions all succeed and whose lock bit asserts     *)
(* writes the fine-delay-skew field (value 2) exactly twice and makes at   *)
(* most 2 lock attempts.                                                   *)
C15_RetryCountIsTwo ==
    ReachedMuLock =>
        /\ Cardinality(LockPolls) <= 2
        /\ ProbeIn.lock_at # 0 =>
              /\ Cardinality(SkewWrites) = 2
              /\ \A i \in SkewWrites :
                    And(last.spi[i].val, AD9739A_FINE_DEL_SKW_MASK) = 2

----------------------------------------------------------------------------
(* 1600 M <= r <= 2500 M *)
RateWithinBounds(r) ==
    /\ ~RateLess(r, Rate(1600, 0))
    /\ ~RateLess(Rate(2500, 0), r)

(* the integer v is the rate r *)
IsRate(v, r) == v >= 0 /\ v \div MEGA = r.mega /\ v % MEGA = r.units

(* C16: a probe whose resources were acquired passes the clock check iff  *)
(* 1600 M <= rate <= 2500 M, failing with -EINVAL before any chip access   *)
(* otherwise; and a read of the sample-rate attribute returns the rate     *)
(* that was accepted.                                                      *)
C16_ClockRangeAndReadBack ==
    /\ (ProbeRan /\ ProbeIn.setup = "ok") =>
          IF RateWithinBounds(ProbeIn.rate)
          THEN Len(last.spi) > 1
          ELSE last.ret = -EINVAL /\ Len(last.spi) = 1
    /\ (last.op = "fe_read_raw" /\ last.arg[1] = "IIO_CHAN_INFO_SAMP_FREQ") =>
          /\ RateWithinBounds(fe.sample_rate)
          /\ last.ret = IIO_VAL_INT
          /\ IsRate(last.val, fe.sample_rate)

----------------------------------------------------------------------------
(* the probe got as far as ad9739a_reset: its events start after the clock *)
(* rate and the read of the ID register                                    *)
ReachedReset ==
    /\ ProbeRan
    /\ ProbeIn.setup = "ok" /\ RateOk(ProbeIn.rate) /\ ~WrongId
    /\ ProbeIn.sfail # 1
ResetAt == 3
GpioEvents == {i \in 1 .. Len(last.spi) : last.spi[i].t = "gpio"}
ModeUpdates == EventsOn(last.spi, "update", AD9739A_REG_MODE)
ResetBit(v) == And(v, AD9739A_RESET_MASK) # 0
IsHold(e) == e.t = "ndelay" /\ e.val >= 40

(* C17: the reset of a probe takes one path.  With a reset line: line      *)
(* active, hold, line released, no update of the mode register.  Without:  *)
(* soft-reset bit set, hold, bit cleared, no line event; a failed set      *)
(* returns its error without the clear.  A reset that succeeded leaves     *)
(* neither the line active nor the bit set.                                *)
C17_ResetUsesOnePath ==
    ReachedReset =>
        /\ ProbeIn.gpio = "present" =>
              /\ GpioEvents = {ResetAt, ResetAt + 2}
              /\ last.spi[ResetAt].val = 1
              /\ IsHold(last.spi[ResetAt + 1])
              /\ last.spi[ResetAt + 2].val = 0
              /\ ModeUpdates = {}
        /\ ProbeIn.gpio = "none" =>
              /\ GpioEvents = {}
              /\ ResetAt \in ModeUpdates
              /\ And(last.spi[ResetAt].val, AD9739A_RESET_MASK) = AD9739A_RESET_MASK
              /\ IF ~last.spi[ResetAt].ok
                 THEN /\ ModeUpdates = {ResetAt}
                      /\ Len(last.spi) = ResetAt
                      /\ last.ret = -EIO
                 ELSE /\ ModeUpdates = {ResetAt, ResetAt + 2}
                      /\ IsHold(last.spi[ResetAt + 1])
                      /\ ~ResetBit(last.spi[ResetAt + 2].val)
                      /\ IF last.spi[ResetAt + 2].ok
                         THEN ~ResetBit(spi_regs[AD9739A_REG_MODE])
                         ELSE last.ret = -EIO /\ Len(last.spi) = ResetAt + 2
        /\ ProbeIn.gpio = "error" =>
              /\ last.ret = -EBUSY
              /\ Len(last.spi) = ResetAt - 1

(* a soft reset that set the bit, held it and cleared it *)
C17_Witness ==
    /\ ReachedReset
    /\ ProbeIn.gpio = "none"
    /\ ModeUpdates = {ResetAt, ResetAt + 2}
    /\ last.spi[ResetAt].wr
    /\ IsHold(last.spi[ResetAt + 1])
    /\ last.spi[ResetAt + 2].wr
    /\ ~ResetBit(spi_regs[AD9739A_REG_MODE])

----------------------------------------------------------------------------
(* the probe called devm_iio_backend_get *)
BindAttempted ==
    ProbeRan /\ \E i \in 1 .. Len(last.spi) : last.spi[i].t = "devm_iio_backend_get"

(* C18: at most one frontend holds a handle to the registered backend; a   *)
(* bind of a backend that another frontend holds returns -EBUSY and hands  *)
(* out nothing; a bind of a registered backend that nobody holds (never    *)
(* bound, or released by its holder's detach) succeeds.                    *)
C18_BindIsExclusive ==
    /\ ~(fe.back /\ other_back)
    /\ (BindAttempted /\ registered /\ ProbeIn.lookup_ret = 0 /\ other_back)
          => (last.ret = -EBUSY /\ ~fe.back)
    /\ (BindAttempted /\ registered /\ ProbeIn.lookup_ret = 0 /\ ~other_back)
          => \E i \in 1 .. Len(last.spi) :
                 last.spi[i].t = "devm_iio_backend_get" /\ last.spi[i].ok
    /\ (last.op = "other_bind" /\ registered) =>
          IF fe.back THEN last.ret = -EBUSY /\ ~other_back
          ELSE last.ret = 0 /\ other_back

(* the AD9739A probe tried to bind a backend that another frontend holds *)
C18_Witness ==
    /\ BindAttempted
    /\ registered
    /\ other_back
    /\ last.ret = -EBUSY

----------------------------------------------------------------------------
(* the calls of a probe that failed, polls of the lock bit aside (a poll   *)
(* that fails is followed by the next attempt)                             *)
FailedCalls ==
    {i \in 1 .. Len(last.spi) : ~last.spi[i].ok /\ last.spi[i].t # "poll"}

(* the error a failed call hands to the probe *)
ErrorOf(e) ==
    CASE e.t \in {"read", "write", "update"} -> {-EIO}
      [] e.t = "devm_iio_backend_get" -> {-ENOENT, -EBUSY, ProbeIn.lookup_ret}
      [] e.t = "request_buffer" -> {ProbeIn.alloc_ret, ProbeIn.attach_ret}
      [] e.t = "devm_iio_device_register" -> {ProbeIn.register_ret}
      [] OTHER -> {}

(* C19: a frontend probe stops at the first stage that fails.  A failed    *)
(* call is the last call of the probe (no register access, no backend call *)
(* after it) and its error is what the probe returns; an unavailable or    *)
(* out-of-range clock, a wrong ID and a failed reset-line request return   *)
(* their error with nothing done after them; a probe that returned an      *)
(* error leaves the device Unbound without a handle.                       *)
C19_ProbeFatalOnFirstError ==
    ProbeRan =>
        /\ \A i \in FailedCalls :
              /\ i = Len(last.spi)
              /\ last.ret \in ErrorOf(last.spi[i]) \ {0}
        /\ (\A i \in 1 .. Len(last.spi) : last.spi[i].t # "devm_iio_backend_get")
              => last.calls = <<>>
        /\ (\A i \in 1 .. Len(last.spi) : last.spi[i].t # "request_buffer")
              => Len(last.calls) <= 1
        /\ ProbeIn.setup = "clk" => (last.ret = -ENOENT /\ last.spi = <<>>)
        /\ (ProbeIn.setup = "ok" /\ ~RateOk(ProbeIn.rate))
              => (last.ret = -EINVAL /\ Len(last.spi) = 1)
        /\ (ProbeIn.setup = "ok" /\ RateOk(ProbeIn.rate) /\ ProbeIn.sfail # 1
              /\ WrongId)
              => (last.ret = -ENODEV /\ Len(last.spi) = 2)
        /\ (ReachedReset /\ ProbeIn.gpio = "error")
              => (last.ret = -EBUSY /\ Len(last.spi) = 2)
        /\ last.ret # 0 => (fe.state = "Unbound" /\ ~fe.back)

(* a bus error on the write of the tuning byte in the second lock attempt  *)
(* ended the probe                                                         *)
C19_Witness ==
    /\ ProbeRan
    /\ Len(last.spi) \in TuningWrites \cap FailedCalls
    /\ Cardinality(LockPolls) = 1
    /\ last.ret = -EIO

----------------------------------------------------------------------------
(* the frontend holds a handle and its streaming buffer is attached *)
BufferReady == fe.back /\ fe.state = "Operational" /\ iio.dma_bufs > 0

(* C20: channel 0 of the backend selects the DMA source only while the     *)
(* frontend holds a handle with its streaming buffer requested and         *)
(* attached, and the frontend calls data_source_set(external) only then.   *)
C20_ExternalOnlyWithBuffer ==
    /\ DataSel(axi_regs, 0) = AXI_DAC_DATA_DMA => BufferReady
    /\ (\E i \in 1 .. Len(last.calls) :
            last.calls[i] = Call("data_source_set", 0, IIO_BACKEND_EXTERNAL))
          => BufferReady

(* ---------------------------------------------------------------------- *)
(* C21: the register-accessibility predicate rejects, the same for a read  *)
(* and for a write, exactly the reserved addresses 0x05, 0x09, 0x0D, 0x0E, *)
(* 0x2B, 0x2C, 0x34 and every address strictly between 0x2A and 0x32; no   *)
(* register the probe and calibration sequence reads or writes (mode 0x00, *)
(* 0x13, 0x22 to 0x2A, ID 0x35) is rejected, so no stage of the probe      *)
(* fails because of the predicate.                                         *)
RejectedAddrs ==
    {\h05, \h09, \h0D, \h0E, \h2B, \h2C, \h34}
        \cup {r \in ChipAddrs : r > \h2A /\ r < \h32}

SequenceRegs == {\h00, \h13, \h35} \cup {r \in ChipAddrs : r >= \h22 /\ r <= \h2A}

RegChecked == last.op = "reg_check"

(* the register accesses of the probe that ran, in order *)
ProbeAccesses ==
    SelectSeq(last.spi, LAMBDA e : e.t \in {"read", "write", "update", "poll"})

C21_PredicateRejectsReservedOnly ==
    /\ RegChecked =>
          /\ last.arg[1] \in {"read", "write"}
          /\ last.out = (last.arg[2] \notin RejectedAddrs)
          /\ (last.arg[2] \in SequenceRegs) => (last.out /\ last.ret = 0)
    /\ ProbeRan =>
          \A i \in 1 .. Len(ProbeAccesses) :
              /\ ProbeAccesses[i].reg \in SequenceRegs
              /\ ProbeAccesses[i].reg \notin RejectedAddrs
              /\ ProbeIn.sfail = 0 => ProbeAccesses[i].ok

(* a write to 0x2D, inside the unused range and not in the reserved list,  *)
(* was rejected after a probe that went through every stage                *)
C21_Witness ==
    /\ RegChecked
    /\ last.arg = <<"write", \h2D>>
    /\ ~last.out
    /\ last.ret = -EIO
    /\ fe.state = "Operational"

====
